---- MODULE Spec2Model ----
(***************************************************************************)
(* A model of package simpleparse (merlincox/html-simple): the token-driven *)
(* driver simpleParse, the built-in HtmlTexter simpleTexter, and the entry  *)
(* points HTML2Text, Custom2Text and IsPlainText, in the two variants of    *)
(* the package: the one that takes the line-break style as an argument of   *)
(* HTML2Text ("percall") and the one that keeps it in the package variable  *)
(* lbr, written by SetUnixLbr ("global").                                   *)
(*                                                                          *)
(* Strings that the code builds are sequences of one-character strings.     *)
(* The tokenizer (golang.org/x/net/html) is the external collaborator: each *)
(* call of tokenizer.Next() yields one token, and the stream ends with one  *)
(* ErrorToken whose cause is io.EOF or another error.                       *)
(***************************************************************************)
EXTENDS Naturals, Sequences, FiniteSets

\* Bounds of the model.
MaxLen == 4      \* tokens before the tokenizer must deliver its ErrorToken
MaxLenGlobal == 2  \* the same, in the package-level-setter variant
MaxFeed == 2     \* how often an output of HTML2Text is fed back in as source
MaxLenDoc == 6   \* tokens before the ErrorToken, in a source of paragraphs
MaxEvents == 4   \* method calls on a simpleTexter that is driven directly

(***************************************************************************)
(* Package-level tables.                                                    *)
(***************************************************************************)
voidElements ==
    {"area", "base", "br", "col", "command", "embed", "hr", "img", "input",
     "keygen", "link", "meta", "param", "source", "track", "wbr"}

selfBreakers == [br |-> 1]

openingBreakers ==
    [p |-> 1, h1 |-> 2, h2 |-> 2, h3 |-> 2, h4 |-> 2, h5 |-> 2, h6 |-> 2, ul |-> 1]

closingBreakers ==
    [p |-> 1, h1 |-> 2, h2 |-> 2, h3 |-> 2, h4 |-> 2, h5 |-> 2, h6 |-> 2, li |-> 1]

\* A Go map lookup m[tag]: the zero value when the key is absent.
Lookup(m, tag) == IF tag \in DOMAIN m THEN m[tag] ELSE 0

WIN_LBR == <<"\r", "\n">>
UNIX_LBR == <<"\n">>

\* The characters whiteSpaceRE's class [\s\p{Zs}] matches, among those of the
\* model: \s is [\t\n\f\r ], and NBSP stands for the \p{Zs} separators.
NBSP == "~"
WhiteSpaceClass == {" ", "\t", "\n", "\f", "\r", NBSP}

\* The cutset of strings.Trim in simpleTexter.String.
TrimCutset == {" ", "\r", "\n"}

(***************************************************************************)
(* Library functions.                                                       *)
(***************************************************************************)
RECURSIVE Repeat(_, _)
\* strings.Repeat
Repeat(s, count) == IF count = 0 THEN <<>> ELSE s \o Repeat(s, count - 1)

\* whiteSpaceRE.ReplaceAllString(src, " ") with the pattern without its "+":
\* every whitespace character becomes a space of its own.
cleanWhiteSpacePerChar(src) ==
    [i \in 1..Len(src) |-> IF src[i] \in WhiteSpaceClass THEN " " ELSE src[i]]

\* whiteSpaceRE.ReplaceAllString(src, " "): every leftmost-longest match of
\* [\s\p{Zs}]+ is replaced by one space.
cleanWhiteSpace(src) ==
    LET out[i \in 0..Len(src)] ==
            IF i = 0 THEN <<>>
            ELSE IF src[i] \notin WhiteSpaceClass THEN Append(out[i - 1], src[i])
            ELSE IF i > 1 /\ src[i - 1] \in WhiteSpaceClass THEN out[i - 1]
            ELSE Append(out[i - 1], " ")
    IN  out[Len(src)]

\* strings.Trim(s, cutset): s without its leading and trailing characters
\* that are in cutset.
Trim(s, cutset) ==
    LET keep == {i \in 1..Len(s) : s[i] \notin cutset}
    IN  IF keep = {} THEN <<>>
        ELSE LET lo == CHOOSE i \in keep : \A j \in keep : i <= j
                 hi == CHOOSE i \in keep : \A j \in keep : j <= i
             IN  SubSeq(s, lo, hi)

(***************************************************************************)
(* The stack (github.com/golang-collections/collections/stack): the top is  *)
(* the last element of the sequence.                                        *)
(***************************************************************************)
\* Push at the wrong end of the stack.
PushBottom(s, x) == <<x>> \o s
Push(s, x) == Append(s, x)
PeekBottom(s) == s[1]
Peek(s) == s[Len(s)]
PopRest(s) == SubSeq(s, 1, Len(s) - 1)

(***************************************************************************)
(* Errors. An error is a record; ErrorString is its Error() text.           *)
(***************************************************************************)
NoErr == [kind |-> "nil", a |-> "", b |-> ""]
UnterminatedTagError(popped) == [kind |-> "Unterminated", a |-> popped, b |-> ""]
NoTagsError == [kind |-> "NoTags", a |-> "", b |-> ""]
StrayEndTagError(tag) == [kind |-> "Stray", a |-> tag, b |-> ""]
TagMismatchError(popped, tag) == [kind |-> "Mismatch", a |-> popped, b |-> tag]
TokenizerError(cause) == [kind |-> "Tokenizer", a |-> cause, b |-> ""]

ErrorString(e) ==
    CASE e.kind = "Unterminated" -> "Unterminated tag: <" \o e.a \o ">"
      [] e.kind = "NoTags"       -> "Contains no tags"
      [] e.kind = "Stray"        -> "End tag without start: </" \o e.a \o ">"
      [] e.kind = "Mismatch"     -> "Tag mismatch: <" \o e.a \o "> with </" \o e.b \o ">"
      [] e.kind = "Tokenizer"    -> e.a
      [] OTHER                   -> ""

(***************************************************************************)
(* Tokens, as the tokenizer hands them to simpleParse: the token type, the  *)
(* tag name of TagName() (empty unless the token is a tag), the text of     *)
(* Text() and, for an ErrorToken, the cause Err() reports.                  *)
(***************************************************************************)
EOF == "EOF"
ErrBufferExceeded == "max buffer exceeded"

Tok(type, tag, text, cause) == [type |-> type, tag |-> tag, text |-> text, cause |-> cause]

TagNames == {"p", "title", "br"}
Texts == {<<"a">>, <<" ", "\t", "b", " ">>}

TagTokens ==
    {Tok(ty, tg, <<>>, "") : ty \in {"StartTag", "EndTag"}, tg \in TagNames}
    \cup {Tok("SelfClosingTag", tg, <<>>, "") : tg \in {"br", "p"}}
    \cup {Tok("Doctype", "", <<>>, ""), Tok("Comment", "", <<>>, "")}
TextTokens == {Tok("Text", "", tx, "") : tx \in Texts}
ErrorTokens == {Tok("Error", "", <<>>, c) : c \in {EOF, ErrBufferExceeded}}

\* The tokens of a source that holds paragraphs, line breaks and text only.
DocTokens ==
    {Tok("StartTag", "p", <<>>, ""), Tok("EndTag", "p", <<>>, ""),
     Tok("StartTag", "br", <<>>, "")}
    \cup TextTokens

\* A source string is either opaque (any markup: the tokenizer's output is
\* then any token stream), or opaque but for the tags it may hold (doc), or
\* a known text without markup.
AnySource == [known |-> FALSE, text |-> <<>>, doc |-> FALSE]
DocSource == [known |-> FALSE, text |-> <<>>, doc |-> TRUE]
PlainSource(text) == [known |-> TRUE, text |-> text, doc |-> FALSE]

\* tokenizer.Next(): the tokens that may come after the n tokens read so far,
\* when the source holds at most limit tokens before its end.
TokenizerNext(source, n, limit) ==
    IF source.known
    THEN IF n = 0 /\ source.text # <<>>
         THEN {Tok("Text", "", source.text, "")}
         ELSE {Tok("Error", "", <<>>, EOF)}
    ELSE IF n < limit
         THEN (IF source.doc THEN DocTokens ELSE TagTokens \cup TextTokens)
              \cup ErrorTokens
         ELSE ErrorTokens

(***************************************************************************)
(* simpleTexter, the built-in HtmlTexter. A texter value is a record: nil   *)
(* (the nil interface value IsPlainText passes), the contents of sb and,    *)
(* in the per-call variant, the field lbr.                                  *)
(***************************************************************************)
VARIABLES
    variant,     \* "percall" (simpleparse.go) or "global" (the package-level setter)
    pc,          \* "idle", "scanning" (inside simpleParse's loop), "parsed"
                 \* (simpleParse has returned to its caller), "returned"
    api,         \* the exported function that is running, or ran last
    src,         \* its src argument
    mustTagArg,  \* Custom2Text's mustTag argument
    mustTag,     \* simpleParse's mustTag parameter
    texter,      \* simpleParse's texter parameter
    tokens,      \* the tokens tokenizer.Next() has returned so far in this call
    tagStack,    \* simpleParse's tagStack
    untagged,    \* simpleParse's untagged
    err,         \* the error simpleParse returns
    events,      \* the HtmlTexter methods simpleParse has invoked in this call
    ret,         \* what the exported function returned
    gen,         \* how many times in a row src has been HTML2Text's own output
    lbrPtr,      \* package variable lbr ("global" variant): its data pointer
    lbrLen,      \* package variable lbr: its length word
    setPc,       \* a concurrent SetUnixLbr: "idle", or the word it has yet to store
    setArg,      \* the argument of the SetUnixLbr in progress
    prior,       \* history: what the call before this one left behind ("none":
                 \* not recorded, "clean", or "dirty": tags on its stack)
    selected     \* history: the line break the caller selected last, by the
                 \* winLbr argument or by a SetUnixLbr between calls
                 \* ("none", "unix" or "win")

vars == <<variant, pc, api, src, mustTagArg, mustTag, texter, tokens, tagStack,
          untagged, err, events, ret, gen, lbrPtr, lbrLen, setPc, setArg,
          prior, selected>>

parseVars == <<mustTag, texter, tokens, tagStack, untagged, err, events>>
lbrVars == <<lbrPtr, lbrLen, setPc, setArg>>
histVars == <<prior, selected>>

NilTexter == [nil |-> TRUE, sb |-> <<>>, lbr |-> <<>>]
\* &simpleTexter{sb: strings.Builder{}, lbr: lbr}
NewSimpleTexter(lbr) == [nil |-> FALSE, sb |-> <<>>, lbr |-> lbr]

\* The bytes behind a string data pointer: WIN_LBR's, or UNIX_LBR's followed
\* by whatever byte the binary holds next.
Junk == "?"
LbrData(ptr) == IF ptr = "WIN" THEN WIN_LBR ELSE UNIX_LBR \o <<Junk>>

\* A read of the package variable lbr: the two words as they are now. While
\* a SetUnixLbr has stored one word only, the read is torn.
GlobalLbr == SubSeq(LbrData(lbrPtr), 1, lbrLen)

\* The line break a handler of simpleTexter writes: h.lbr, or lbr.
LbrOf(h) == IF variant = "percall" THEN h.lbr ELSE GlobalLbr

StartTag(h, tag) ==
    [h EXCEPT !.sb = @ \o Repeat(LbrOf(h), Lookup(openingBreakers, tag))]

\* SelfTag reading the table of the start tags.
SelfTagAsOpening(h, tag) ==
    [h EXCEPT !.sb = @ \o Repeat(LbrOf(h), Lookup(openingBreakers, tag))]

SelfTag(h, tag) ==
    [h EXCEPT !.sb = @ \o Repeat(LbrOf(h), Lookup(selfBreakers, tag))]

EndTag(h, tag) ==
    [h EXCEPT !.sb = @ \o Repeat(LbrOf(h), Lookup(closingBreakers, tag))]

TextAlways(h, enclosing, input) ==
    [h EXCEPT !.sb = @ \o cleanWhiteSpace(input)]

Text(h, enclosing, input) ==
    IF enclosing # "title"
    THEN [h EXCEPT !.sb = @ \o cleanWhiteSpace(input)]
    ELSE h

String(h) == Trim(h.sb, TrimCutset)

(***************************************************************************)
(* simpleParse.                                                             *)
(***************************************************************************)
Event(op, a, b) == [op |-> op, a |-> a, b |-> b]

\* tokenizer.Next() in the call in progress.
NextToken ==
    TokenizerNext(src, Len(tokens),
                  IF src.doc THEN MaxLenDoc
                  ELSE IF variant = "global" THEN MaxLenGlobal
                  ELSE MaxLen)

\* The token type simpleParse switches on, without the reclassification.
TokenTypeAsRead(tok) == tok.type

\* The token type simpleParse switches on: a start tag of a void element is
\* handled as a self-closing tag.
TokenType(tok) ==
    IF tok.type = "StartTag" /\ tok.tag \in voidElements
    THEN "SelfClosingTag"
    ELSE tok.type

\* What a case of the switch leaves behind: the error it returns (NoErr when
\* it returns nil, or when the loop goes on) and the stack.
Outcome(e, stack) == [err |-> e, stack |-> stack]

\* case html.ErrorToken, without the look at the stack.
AtErrorTokenNoStackCheck(cause, stack, untagged_, mustTag_) ==
    IF cause = EOF
    THEN IF untagged_ /\ mustTag_ THEN Outcome(NoTagsError, stack)
         ELSE Outcome(NoErr, stack)
    ELSE Outcome(TokenizerError(cause), stack)

\* case html.ErrorToken.
AtErrorToken(cause, stack, untagged_, mustTag_) ==
    IF cause = EOF
    THEN IF Len(stack) # 0
         THEN Outcome(UnterminatedTagError(Peek(stack)), PopRest(stack))
         ELSE IF untagged_ /\ mustTag_ THEN Outcome(NoTagsError, stack)
         ELSE Outcome(NoErr, stack)
    ELSE Outcome(TokenizerError(cause), stack)

\* case html.EndTagToken with the operands of the mismatch error exchanged.
AtEndTagSwapped(stack, tag) ==
    IF Len(stack) = 0 THEN Outcome(StrayEndTagError(tag), stack)
    ELSE IF Peek(stack) # tag
         THEN Outcome(TagMismatchError(tag, Peek(stack)), PopRest(stack))
    ELSE Outcome(NoErr, PopRest(stack))

\* case html.EndTagToken popping without comparing the names.
AtEndTagNoCompare(stack, tag) ==
    IF Len(stack) = 0 THEN Outcome(StrayEndTagError(tag), stack)
    ELSE Outcome(NoErr, PopRest(stack))

\* case html.EndTagToken, up to the call of texter.EndTag.
AtEndTag(stack, tag) ==
    IF Len(stack) = 0 THEN Outcome(StrayEndTagError(tag), stack)
    ELSE IF Peek(stack) # tag
         THEN Outcome(TagMismatchError(Peek(stack), tag), PopRest(stack))
    ELSE Outcome(NoErr, PopRest(stack))

\* The enclosing tag if it were the outermost open element.
EnclosingOutermost(stack) == IF Len(stack) > 0 THEN PeekBottom(stack) ELSE ""

\* The enclosing tag of a text token.
Enclosing(stack) == IF Len(stack) > 0 THEN Peek(stack) ELSE ""

\* The start of simpleParse if the stack outlived the call before.
simpleParseKeepsStack(mustTag_, texter_) ==
    /\ mustTag' = mustTag_
    /\ texter' = texter_
    /\ tokens' = <<>>
    /\ UNCHANGED tagStack
    /\ untagged' = TRUE
    /\ err' = NoErr
    /\ events' = <<>>
    /\ pc' = "scanning"

\* The start of simpleParse: a new tokenizer, a new stack, untagged = true.
simpleParse(mustTag_, texter_) ==
    /\ mustTag' = mustTag_
    /\ texter' = texter_
    /\ tokens' = <<>>
    /\ tagStack' = <<>>
    /\ untagged' = TRUE
    /\ err' = NoErr
    /\ events' = <<>>
    /\ pc' = "scanning"

\* One turn of the loop on an ErrorToken if only the end of input returned.
StepErrorTokenContinues ==
    /\ pc = "scanning"
    /\ \E tok \in NextToken :
        /\ TokenType(tok) = "Error"
        /\ tokens' = Append(tokens, tok)
        /\ err' = AtErrorToken(tok.cause, tagStack, untagged, mustTag).err
        /\ tagStack' = AtErrorToken(tok.cause, tagStack, untagged, mustTag).stack
        /\ pc' = IF tok.cause = EOF THEN "parsed" ELSE "scanning"
    /\ UNCHANGED <<variant, api, src, mustTagArg, mustTag, texter, untagged,
                   events, ret, gen, lbrVars, histVars>>

\* One turn of the loop on an ErrorToken: simpleParse returns.
StepErrorToken ==
    /\ pc = "scanning"
    /\ \E tok \in NextToken :
        /\ TokenType(tok) = "Error"
        /\ tokens' = Append(tokens, tok)
        /\ err' = AtErrorToken(tok.cause, tagStack, untagged, mustTag).err
        /\ tagStack' = AtErrorToken(tok.cause, tagStack, untagged, mustTag).stack
    /\ pc' = "parsed"
    /\ UNCHANGED <<variant, api, src, mustTagArg, mustTag, texter, untagged,
                   events, ret, gen, lbrVars, histVars>>

\* One turn of the loop on a StartTagToken.
StepStartTag ==
    /\ pc = "scanning"
    /\ \E tok \in NextToken :
        /\ TokenType(tok) = "StartTag"
        /\ tokens' = Append(tokens, tok)
        /\ tagStack' = Push(tagStack, tok.tag)
        /\ IF texter.nil
           THEN UNCHANGED <<texter, events>>
           ELSE /\ texter' = StartTag(texter, tok.tag)
                /\ events' = Append(events, Event("StartTag", tok.tag, <<>>))
    /\ untagged' = FALSE
    /\ UNCHANGED <<variant, pc, api, src, mustTagArg, mustTag, err, ret, gen, lbrVars, histVars>>

\* One turn of the loop on a TextToken.
StepText ==
    /\ pc = "scanning"
    /\ \E tok \in NextToken :
        /\ TokenType(tok) = "Text"
        /\ tokens' = Append(tokens, tok)
        /\ IF texter.nil
           THEN UNCHANGED <<texter, events>>
           ELSE /\ texter' = Text(texter, Enclosing(tagStack), tok.text)
                /\ events' = Append(events, Event("Text", Enclosing(tagStack), tok.text))
    /\ UNCHANGED <<variant, pc, api, src, mustTagArg, mustTag, tagStack, untagged,
                   err, ret, gen, lbrVars, histVars>>

\* One turn of the loop on a SelfClosingTagToken (a void start tag included),
\* a DoctypeToken or a CommentToken.
StepSelfTag ==
    /\ pc = "scanning"
    /\ \E tok \in NextToken :
        /\ TokenType(tok) \in {"SelfClosingTag", "Doctype", "Comment"}
        /\ tokens' = Append(tokens, tok)
        /\ IF texter.nil
           THEN UNCHANGED <<texter, events>>
           ELSE /\ texter' = SelfTag(texter, tok.tag)
                /\ events' = Append(events, Event("SelfTag", tok.tag, <<>>))
    /\ untagged' = FALSE
    /\ UNCHANGED <<variant, pc, api, src, mustTagArg, mustTag, tagStack, err, ret,
                   gen, lbrVars, histVars>>

\* One turn of the loop on an EndTagToken if texter.EndTag were called before
\* the stack is looked at.
StepEndTagHandlerFirst ==
    /\ pc = "scanning"
    /\ \E tok \in NextToken :
        /\ TokenType(tok) = "EndTag"
        /\ tokens' = Append(tokens, tok)
        /\ err' = AtEndTag(tagStack, tok.tag).err
        /\ tagStack' = AtEndTag(tagStack, tok.tag).stack
        /\ pc' = IF err' = NoErr THEN "scanning" ELSE "parsed"
        /\ IF texter.nil
           THEN UNCHANGED <<texter, events>>
           ELSE /\ texter' = EndTag(texter, tok.tag)
                /\ events' = Append(events, Event("EndTag", tok.tag, <<>>))
    /\ UNCHANGED <<variant, api, src, mustTagArg, mustTag, untagged, ret, gen, lbrVars, histVars>>

\* One turn of the loop on an EndTagToken: an error return, or the pop and
\* the EndTag call.
StepEndTag ==
    /\ pc = "scanning"
    /\ \E tok \in NextToken :
        /\ TokenType(tok) = "EndTag"
        /\ tokens' = Append(tokens, tok)
        /\ err' = AtEndTag(tagStack, tok.tag).err
        /\ tagStack' = AtEndTag(tagStack, tok.tag).stack
        /\ pc' = IF err' = NoErr THEN "scanning" ELSE "parsed"
        /\ IF texter.nil \/ err' # NoErr
           THEN UNCHANGED <<texter, events>>
           ELSE /\ texter' = EndTag(texter, tok.tag)
                /\ events' = Append(events, Event("EndTag", tok.tag, <<>>))
    /\ UNCHANGED <<variant, api, src, mustTagArg, mustTag, untagged, ret, gen, lbrVars, histVars>>

(***************************************************************************)
(* The exported functions. A call runs from its first statement to the      *)
(* call of simpleParse in one step, and from simpleParse's return to its    *)
(* own return in another.                                                   *)
(***************************************************************************)
NoRet == [str |-> <<>>, err |-> NoErr, plain |-> FALSE]

CanCall == pc \in {"idle", "returned"}

\* HTML2Text's lbr: "\n", or "\r\n" when the first optional argument is true.
LbrArg(winLbr) == IF Len(winLbr) > 0 /\ winLbr[1] = TRUE THEN WIN_LBR ELSE UNIX_LBR

\* HTML2Text(src, winLbr...) of the per-call variant, up to simpleParse.
CallHTML2Text ==
    /\ CanCall
    /\ variant = "percall"
    /\ \E winLbr \in {<<>>, <<TRUE>>, <<FALSE>>} :
        simpleParse(FALSE, NewSimpleTexter(LbrArg(winLbr)))
    /\ api' = "HTML2Text"
    /\ src' = AnySource
    /\ gen' = 0
    /\ ret' = NoRet
    /\ UNCHANGED <<variant, mustTagArg, lbrVars, histVars>>

\* HTML2Text(y, winLbr...) where y is what the HTML2Text call before it
\* returned: a source without markup.
CallHTML2TextOnOutput ==
    /\ pc = "returned"
    /\ variant = "percall"
    /\ api = "HTML2Text"
    /\ err = NoErr
    /\ gen < MaxFeed
    /\ \E winLbr \in {<<>>, <<TRUE>>} :
        simpleParse(FALSE, NewSimpleTexter(LbrArg(winLbr)))
    /\ src' = PlainSource(ret.str)
    /\ gen' = gen + 1
    /\ ret' = NoRet
    /\ UNCHANGED <<variant, api, mustTagArg, lbrVars, histVars>>

\* HTML2Text(src) of the package-level-setter variant, up to simpleParse.
CallHTML2TextGlobal ==
    /\ CanCall
    /\ variant = "global"
    /\ simpleParse(FALSE, NewSimpleTexter(<<>>))
    /\ api' = "HTML2Text"
    /\ src' = AnySource
    /\ gen' = 0
    /\ ret' = NoRet
    /\ UNCHANGED <<variant, mustTagArg, lbrVars, histVars>>

\* The mustTag that Custom2Text hands to simpleParse: the literal false.
Custom2TextMustTag(mustTag_) == FALSE

\* Custom2Text(src, mustTag, texter), up to simpleParse. The texter is a new
\* simpleTexter, as a caller inside the package can make one.
CallCustom2Text ==
    /\ CanCall
    /\ \E mt \in BOOLEAN :
        /\ mustTagArg' = mt
        /\ \E l \in (IF variant = "percall" THEN {UNIX_LBR, WIN_LBR} ELSE {<<>>}) :
              simpleParse(Custom2TextMustTag(mt), NewSimpleTexter(l))
    /\ api' = "Custom2Text"
    /\ src' = AnySource
    /\ gen' = 0
    /\ ret' = NoRet
    /\ UNCHANGED <<variant, lbrVars, histVars>>

\* IsPlainText(src), up to simpleParse.
CallIsPlainText ==
    /\ CanCall
    /\ variant = "percall"
    /\ simpleParse(TRUE, NilTexter)
    /\ api' = "IsPlainText"
    /\ src' = AnySource
    /\ gen' = 0
    /\ ret' = NoRet
    /\ UNCHANGED <<variant, mustTagArg, lbrVars, histVars>>

\* HTML2Text's result if it returned the text whatever simpleParse returned.
HTML2TextResultAlways(e, h) == String(h)

\* HTML2Text's result: the text when simpleParse returned nil, else "".
HTML2TextResult(e, h) == IF e = NoErr THEN String(h) ELSE <<>>

\* Custom2Text's results.
Custom2TextResult(e, h) ==
    IF e = NoErr
    THEN [str |-> String(h), err |-> NoErr, plain |-> FALSE]
    ELSE [str |-> <<>>, err |-> e, plain |-> FALSE]

\* IsPlainText's result if it took any error for the no-tags error.
IsPlainTextResultAnyError(e) == e # NoErr

\* IsPlainText's result.
IsPlainTextResult(e) == e # NoErr /\ ErrorString(e) = "Contains no tags"

ReturnHTML2Text ==
    /\ pc = "parsed"
    /\ api = "HTML2Text"
    /\ ret' = [str |-> HTML2TextResult(err, texter), err |-> NoErr, plain |-> FALSE]
    /\ pc' = "returned"
    /\ UNCHANGED <<variant, api, src, mustTagArg, parseVars, gen, lbrVars, histVars>>

ReturnCustom2Text ==
    /\ pc = "parsed"
    /\ api = "Custom2Text"
    /\ ret' = Custom2TextResult(err, texter)
    /\ pc' = "returned"
    /\ UNCHANGED <<variant, api, src, mustTagArg, parseVars, gen, lbrVars, histVars>>

ReturnIsPlainText ==
    /\ pc = "parsed"
    /\ api = "IsPlainText"
    /\ ret' = [str |-> <<>>, err |-> NoErr, plain |-> IsPlainTextResult(err)]
    /\ pc' = "returned"
    /\ UNCHANGED <<variant, api, src, mustTagArg, parseVars, gen, lbrVars, histVars>>

(***************************************************************************)
(* SetUnixLbr (package-level-setter variant), called by another goroutine.  *)
(* The assignment to lbr stores the two words of the string one after the   *)
(* other, in the order the compiler chose; nothing orders them with the     *)
(* reads of a parse in progress.                                            *)
(***************************************************************************)
\* SetUnixLbr assigning the other constant.
LbrWordsSwapped(b) == IF b THEN [ptr |-> "WIN", len |-> Len(WIN_LBR)]
                           ELSE [ptr |-> "UNIX", len |-> Len(UNIX_LBR)]

LbrWords(b) == IF b THEN [ptr |-> "UNIX", len |-> Len(UNIX_LBR)]
                    ELSE [ptr |-> "WIN", len |-> Len(WIN_LBR)]

\* SetUnixLbr(b): the first of the two stores.
SetUnixLbrFirstStore ==
    /\ variant = "global"
    /\ setPc = "idle"
    /\ \E b \in BOOLEAN :
        /\ setArg' = b
        /\ \/ lbrPtr' = LbrWords(b).ptr /\ setPc' = "len" /\ UNCHANGED lbrLen
           \/ lbrLen' = LbrWords(b).len /\ setPc' = "ptr" /\ UNCHANGED lbrPtr
    /\ UNCHANGED <<variant, pc, api, src, mustTagArg, parseVars, ret, gen, histVars>>

\* SetUnixLbr(b): the second store.
SetUnixLbrSecondStore ==
    /\ variant = "global"
    /\ setPc # "idle"
    /\ IF setPc = "ptr"
       THEN lbrPtr' = LbrWords(setArg).ptr /\ UNCHANGED lbrLen
       ELSE lbrLen' = LbrWords(setArg).len /\ UNCHANGED lbrPtr
    /\ setPc' = "idle"
    /\ setArg' = FALSE
    /\ UNCHANGED <<variant, pc, api, src, mustTagArg, parseVars, ret, gen, histVars>>

(***************************************************************************)
(* The specifications: Spec is the per-call variant, SpecGlobal the         *)
(* package-level-setter variant with a concurrent SetUnixLbr.               *)
(***************************************************************************)
InitCommon ==
    /\ pc = "idle"
    /\ api = "none"
    /\ src = AnySource
    /\ mustTagArg = FALSE
    /\ mustTag = FALSE
    /\ texter = NilTexter
    /\ tokens = <<>>
    /\ tagStack = <<>>
    /\ untagged = TRUE
    /\ err = NoErr
    /\ events = <<>>
    /\ ret = NoRet
    /\ gen = 0
    \* var lbr = WIN_LBR
    /\ lbrPtr = "WIN"
    /\ lbrLen = Len(WIN_LBR)
    /\ setPc = "idle"
    /\ setArg = FALSE
    /\ prior = "none"
    /\ selected = "none"

Init == variant = "percall" /\ InitCommon

InitGlobal == variant = "global" /\ InitCommon

Step ==
    \/ StepErrorToken
    \/ StepStartTag
    \/ StepText
    \/ StepSelfTag
    \/ StepEndTag

Next ==
    \/ CallHTML2Text
    \/ CallHTML2TextOnOutput
    \/ CallCustom2Text
    \/ CallIsPlainText
    \/ Step
    \/ ReturnHTML2Text
    \/ ReturnCustom2Text
    \/ ReturnIsPlainText

NextGlobal ==
    \/ CallHTML2TextGlobal
    \/ CallCustom2Text
    \/ Step
    \/ ReturnHTML2Text
    \/ ReturnCustom2Text
    \/ SetUnixLbrFirstStore
    \/ SetUnixLbrSecondStore

Spec == Init /\ [][Next]_vars

SpecGlobal == InitGlobal /\ [][NextGlobal]_vars

(***************************************************************************)
(* SpecDocs: calls of HTML2Text and IsPlainText, one after the other, on    *)
(* sources of paragraphs, line breaks and text, long enough to hold two     *)
(* whole paragraphs. Each call records in prior what the call before it     *)
(* left on its stack.                                                       *)
(***************************************************************************)
LeftBehind ==
    IF pc = "idle" THEN "none" ELSE IF tagStack # <<>> THEN "dirty" ELSE "clean"

\* HTML2Text(src, winLbr...) on a source of paragraphs, up to simpleParse.
CallHTML2TextDoc ==
    /\ CanCall
    /\ variant = "percall"
    /\ \E winLbr \in {<<>>, <<TRUE>>} :
        simpleParse(FALSE, NewSimpleTexter(LbrArg(winLbr)))
    /\ api' = "HTML2Text"
    /\ src' = DocSource
    /\ gen' = 0
    /\ ret' = NoRet
    /\ prior' = LeftBehind
    /\ UNCHANGED <<variant, mustTagArg, lbrVars, selected>>

\* IsPlainText(src) on a source of paragraphs, up to simpleParse.
CallIsPlainTextDoc ==
    /\ CanCall
    /\ variant = "percall"
    /\ simpleParse(TRUE, NilTexter)
    /\ api' = "IsPlainText"
    /\ src' = DocSource
    /\ gen' = 0
    /\ ret' = NoRet
    /\ prior' = LeftBehind
    /\ UNCHANGED <<variant, mustTagArg, lbrVars, selected>>

NextDocs ==
    \/ CallHTML2TextDoc
    \/ CallIsPlainTextDoc
    \/ Step
    \/ ReturnHTML2Text
    \/ ReturnIsPlainText

SpecDocs == Init /\ [][NextDocs]_vars

(***************************************************************************)
(* SpecFair: calls of HTML2Text and IsPlainText in which the loop of          *)
(* simpleParse keeps running: a call in progress is a running goroutine, and *)
(* tokenizer.Next returns at every turn, so a turn of the loop that can be   *)
(* taken is taken (weak fairness of Step).                                   *)
(***************************************************************************)
NextFair ==
    \/ CallHTML2Text
    \/ CallIsPlainText
    \/ Step
    \/ ReturnHTML2Text
    \/ ReturnIsPlainText

SpecFair == Init /\ [][NextFair]_vars /\ WF_vars(Step)

(***************************************************************************)
(* SpecTexter: a simpleTexter used through the HtmlTexter interface alone:   *)
(* any of its five methods, in any order, MaxEvents calls at most. events   *)
(* records the calls, String's among them; ret.str is what the last String  *)
(* returned.                                                                *)
(***************************************************************************)
texterFrame ==
    <<variant, pc, api, src, mustTagArg, mustTag, tokens, tagStack, untagged,
      err, gen, lbrVars, histVars>>

InitTexter ==
    /\ variant = "percall"
    /\ pc = "idle"
    /\ api = "none"
    /\ src = AnySource
    /\ mustTagArg = FALSE
    /\ mustTag = FALSE
    /\ texter \in {NewSimpleTexter(UNIX_LBR), NewSimpleTexter(WIN_LBR)}
    /\ tokens = <<>>
    /\ tagStack = <<>>
    /\ untagged = TRUE
    /\ err = NoErr
    /\ events = <<>>
    /\ ret = NoRet
    /\ gen = 0
    /\ lbrPtr = "WIN"
    /\ lbrLen = Len(WIN_LBR)
    /\ setPc = "idle"
    /\ setArg = FALSE
    /\ prior = "none"
    /\ selected = "none"

TexterStartTag ==
    /\ Len(events) < MaxEvents
    /\ \E tag \in TagNames :
        /\ texter' = StartTag(texter, tag)
        /\ events' = Append(events, Event("StartTag", tag, <<>>))
    /\ UNCHANGED <<texterFrame, ret>>

TexterSelfTag ==
    /\ Len(events) < MaxEvents
    /\ \E tag \in TagNames \cup {""} :
        /\ texter' = SelfTag(texter, tag)
        /\ events' = Append(events, Event("SelfTag", tag, <<>>))
    /\ UNCHANGED <<texterFrame, ret>>

TexterEndTag ==
    /\ Len(events) < MaxEvents
    /\ \E tag \in TagNames :
        /\ texter' = EndTag(texter, tag)
        /\ events' = Append(events, Event("EndTag", tag, <<>>))
    /\ UNCHANGED <<texterFrame, ret>>

TexterText ==
    /\ Len(events) < MaxEvents
    /\ \E enclosing \in {"", "p", "title"}, input \in Texts :
        /\ texter' = Text(texter, enclosing, input)
        /\ events' = Append(events, Event("Text", enclosing, input))
    /\ UNCHANGED <<texterFrame, ret>>

\* String if it kept what it trimmed.
TexterStringTrimsBuffer ==
    /\ Len(events) < MaxEvents
    /\ ret' = [str |-> String(texter), err |-> NoErr, plain |-> FALSE]
    /\ texter' = [texter EXCEPT !.sb = String(texter)]
    /\ events' = Append(events, Event("String", "", <<>>))
    /\ UNCHANGED texterFrame

TexterString ==
    /\ Len(events) < MaxEvents
    /\ ret' = [str |-> String(texter), err |-> NoErr, plain |-> FALSE]
    /\ events' = Append(events, Event("String", "", <<>>))
    /\ UNCHANGED <<texterFrame, texter>>

NextTexter ==
    \/ TexterStartTag
    \/ TexterSelfTag
    \/ TexterEndTag
    \/ TexterText
    \/ TexterString

SpecTexter == InitTexter /\ [][NextTexter]_vars

(***************************************************************************)
(* SpecBoth: either variant, with HTML2Text called on sources of paragraphs  *)
(* and, in the package-level-setter variant, SetUnixLbr called between the   *)
(* calls of HTML2Text, never during one. selected records the line break the *)
(* caller asked for.                                                        *)
(***************************************************************************)
InitBoth == variant \in {"percall", "global"} /\ InitCommon

\* HTML2Text(src, winLbr...) of the per-call variant, up to simpleParse.
CallHTML2TextSelecting ==
    /\ CanCall
    /\ variant = "percall"
    /\ \E winLbr \in {<<>>, <<TRUE>>, <<FALSE>>} :
        /\ simpleParse(FALSE, NewSimpleTexter(LbrArg(winLbr)))
        /\ selected' = IF winLbr = <<>> THEN "none"
                       ELSE IF winLbr[1] THEN "win" ELSE "unix"
    /\ api' = "HTML2Text"
    /\ src' = DocSource
    /\ gen' = 0
    /\ ret' = NoRet
    /\ UNCHANGED <<variant, mustTagArg, lbrVars, prior>>

\* HTML2Text(src) of the package-level-setter variant, up to simpleParse.
CallHTML2TextAsSet ==
    /\ CanCall
    /\ variant = "global"
    /\ simpleParse(FALSE, NewSimpleTexter(<<>>))
    /\ api' = "HTML2Text"
    /\ src' = DocSource
    /\ gen' = 0
    /\ ret' = NoRet
    /\ UNCHANGED <<variant, mustTagArg, lbrVars, histVars>>

\* SetUnixLbr(b), from call to return, while no HTML2Text is running.
SetUnixLbr ==
    /\ CanCall
    /\ variant = "global"
    /\ setPc = "idle"
    /\ \E b \in BOOLEAN :
        /\ lbrPtr' = LbrWords(b).ptr
        /\ lbrLen' = LbrWords(b).len
        /\ selected' = IF b THEN "unix" ELSE "win"
    /\ api' = "SetUnixLbr"
    /\ pc' = "returned"
    /\ ret' = NoRet
    /\ UNCHANGED <<variant, src, mustTagArg, parseVars, gen, setPc, setArg, prior>>

NextBoth ==
    \/ CallHTML2TextSelecting
    \/ CallHTML2TextAsSet
    \/ SetUnixLbr
    \/ Step
    \/ ReturnHTML2Text

SpecBoth == InitBoth /\ [][NextBoth]_vars

(***************************************************************************)
(* Properties.                                                              *)
(***************************************************************************)
Last(s) == s[Len(s)]

\* simpleParse has returned.
Parsed == pc \in {"parsed", "returned"}

\* The token is a tag, a doctype or a comment.
IsTagLike(tok) ==
    tok.type \in {"StartTag", "EndTag", "SelfClosingTag", "Doctype", "Comment"}

\* The stream read in this call ended with the ordinary end of input.
EndedAtEOF == tokens # <<>> /\ Last(tokens).type = "Error" /\ Last(tokens).cause = EOF

\* The step taken is a turn of simpleParse's loop on a token of this type.
Took(type) ==
    /\ pc = "scanning"
    /\ Len(tokens') = Len(tokens) + 1
    /\ Last(tokens').type = type

\* C1: whenever simpleParse returns nil, the tag stack is empty: no start tag
\* that was pushed remains unpopped.
C1_SuccessLeavesStackEmpty ==
    (Parsed /\ err = NoErr) => tagStack = <<>>

\* A successful parse that pushed two start tags and popped them.
C1_Witness ==
    /\ pc = "parsed"
    /\ err = NoErr
    /\ Cardinality({i \in 1..Len(tokens) : tokens[i].type = "StartTag"
                                           /\ tokens[i].tag \notin voidElements}) = 2

\* C2: Custom2Text honours mustTag: with mustTag true and a stream without
\* start tag, self-closing tag, doctype or comment that ends at the ordinary
\* end of input, it returns the "Contains no tags" error and an empty string.
C2_Custom2TextHonoursMustTag ==
    (/\ pc = "returned"
     /\ api = "Custom2Text"
     /\ mustTagArg
     /\ EndedAtEOF
     /\ \A i \in 1..Len(tokens) : ~IsTagLike(tokens[i]))
    => (ret.err = NoTagsError /\ ret.str = <<>>)

\* C3: IsPlainText returns true if and only if the stream holds no start
\* tag, end tag, self-closing tag, doctype or comment and ends at the
\* ordinary end of input.
C3_IsPlainTextIffNoTags ==
    (pc = "returned" /\ api = "IsPlainText")
    => (ret.plain <=> (EndedAtEOF /\ \A i \in 1..Len(tokens) : ~IsTagLike(tokens[i])))

\* IsPlainText has returned true for a stream with text in it.
C3_Witness ==
    /\ pc = "returned"
    /\ api = "IsPlainText"
    /\ ret.plain
    /\ \E i \in 1..Len(tokens) : tokens[i].type = "Text"

\* C4, as claimed: with the default text builder, a text token that occurs
\* while "title" is open anywhere on the tag stack adds nothing to the output.
C4_TitleAnywhereDropsText ==
    [][(/\ Took("Text")
        /\ ~texter.nil
        /\ \E i \in 1..Len(tagStack) : tagStack[i] = "title")
       => texter'.sb = texter.sb]_vars

\* C4, amended: a text token adds nothing exactly when "title" is the top of
\* the tag stack, however deep the stack is; any other text token, one under
\* an element opened inside "title" included, adds its text with every
\* whitespace run collapsed to one space.
C4_TitleOnTopDropsText ==
    [][(Took("Text") /\ ~texter.nil)
       => texter'.sb = IF tagStack # <<>> /\ tagStack[Len(tagStack)] = "title"
                       THEN texter.sb
                       ELSE texter.sb \o cleanWhiteSpace(Last(tokens').text)]_vars

\* A text token has just been dropped under a "title" that is itself nested
\* in another open element.
C4_Witness ==
    /\ pc = "scanning"
    /\ ~texter.nil
    /\ tokens # <<>>
    /\ Last(tokens).type = "Text"
    /\ Len(tagStack) >= 2
    /\ Last(tagStack) = "title"
    /\ texter.sb = <<>>

\* C5: when the ordinary end of input arrives while the tag stack is not
\* empty, simpleParse fails with the unterminated-tag error that names the
\* top of the stack, whatever mustTag is and however many tags are open.
C5_UnterminatedNamesTop ==
    [][(/\ Took("Error")
        /\ Last(tokens').cause = EOF
        /\ tagStack # <<>>)
       => (/\ pc' = "parsed"
           /\ err' = UnterminatedTagError(tagStack[Len(tagStack)]))]_vars

\* With mustTag set, the end of input has arrived with two different tags
\* open, and the error names the inner one.
C5_Witness ==
    /\ pc = "parsed"
    /\ mustTag
    /\ EndedAtEOF
    /\ err.kind = "Unterminated"
    /\ tagStack # <<>>
    /\ tagStack[1] # err.a

\* C6: on an end tag named n: with an empty stack simpleParse fails with the
\* stray-end-tag error naming n; else, when the popped top t differs from n,
\* with the mismatch error carrying expected t and got n; only when t = n
\* does the parse go on, and the callback's EndTag is invoked with n.
C6_EndTagHandling ==
    [][Took("EndTag")
       => LET n == Last(tokens').tag
          IN  IF tagStack = <<>>
              THEN pc' = "parsed" /\ err' = StrayEndTagError(n) /\ events' = events
              ELSE IF tagStack[Len(tagStack)] # n
              THEN /\ pc' = "parsed"
                   /\ err' = TagMismatchError(tagStack[Len(tagStack)], n)
                   /\ events' = events
              ELSE /\ pc' = "scanning"
                   /\ err' = NoErr
                   /\ events' = IF texter.nil THEN events
                                ELSE Append(events, Event("EndTag", n, <<>>))]_vars

\* An end tag has met a different tag on top of the stack, after an end tag
\* that matched.
C6_Witness ==
    /\ pc = "parsed"
    /\ err.kind = "Mismatch"
    /\ err.b = Last(tokens).tag
    /\ err.a # err.b
    /\ \E i \in 1..Len(events) : events[i].op = "EndTag"

\* C7: a start tag of a void element is never pushed and goes to the
\* callback's SelfTag only, never to StartTag; the tag stack never holds the
\* name of a void element.
C7_VoidNeverPushed ==
    /\ \A i \in 1..Len(tagStack) : tagStack[i] \notin voidElements
    /\ \A i \in 1..Len(events) :
        /\ events[i].op = "StartTag" => events[i].a \notin voidElements
        /\ (tokens[i].type = "StartTag" /\ tokens[i].tag \in voidElements)
              => events[i] = Event("SelfTag", tokens[i].tag, <<>>)

\* A stream with a void start tag and no end tag for it has parsed
\* successfully, with a callback.
C7_Witness ==
    /\ pc = "parsed"
    /\ err = NoErr
    /\ ~texter.nil
    /\ \E i \in 1..Len(tokens) :
        /\ tokens[i].type = "StartTag"
        /\ tokens[i].tag \in voidElements
        /\ \A j \in 1..Len(tokens) : tokens[j].type = "EndTag" => tokens[j].tag # tokens[i].tag

\* C8: HTML2Text returns the empty string whenever simpleParse fails, whatever
\* the buffer holds by then, and the texter's String() when it succeeds;
\* Custom2Text returns the error of simpleParse unchanged, with an empty
\* string, when it fails.
C8_ErrorsAtTheEntryPoints ==
    /\ (pc = "returned" /\ api = "HTML2Text")
          => ret.str = IF err = NoErr THEN Trim(texter.sb, TrimCutset) ELSE <<>>
    /\ (pc = "returned" /\ api = "Custom2Text" /\ err # NoErr)
          => (ret.err = err /\ ret.str = <<>>)

\* HTML2Text has returned "" after a failure with text in the buffer.
C8_Witness ==
    /\ pc = "returned"
    /\ api = "HTML2Text"
    /\ err # NoErr
    /\ Trim(texter.sb, TrimCutset) # <<>>
    /\ ret.str = <<>>

\* Every line break in s is one of the two line-break strings, whole: no
\* "\r" without its "\n", no byte from beyond the string.
WholeLineBreaks(s) ==
    /\ \A i \in 1..Len(s) : s[i] # Junk
    /\ \A i \in 1..Len(s) : s[i] = "\r" => (i < Len(s) /\ s[i + 1] = "\n")

\* The line breaks in s are all "\n" or all "\r\n".
UniformLineBreaks(s) ==
    \/ \A i \in 1..Len(s) : s[i] # "\r"
    \/ \A i \in 1..Len(s) : s[i] = "\n" => (i > 1 /\ s[i - 1] = "\r")

\* C9: every line break in the output of one conversion call is the same
\* string, "\n" or "\r\n", also when another goroutine runs SetUnixLbr
\* between two token steps of the parse. (A buffer with a torn line break in
\* it is left aside: the claim is about whole line breaks.)
C9_OneLineBreakStylePerCall ==
    WholeLineBreaks(texter.sb) => UniformLineBreaks(texter.sb)

RECURSIVE CollapseRuns(_)
\* s with every maximal run of whitespace replaced by one space.
CollapseRuns(s) ==
    IF s = <<>> THEN <<>>
    ELSE IF Head(s) \notin WhiteSpaceClass THEN <<Head(s)>> \o CollapseRuns(Tail(s))
    ELSE IF Len(s) > 1 /\ s[2] \in WhiteSpaceClass THEN CollapseRuns(Tail(s))
    ELSE <<" ">> \o CollapseRuns(Tail(s))

\* C10: HTML2Text of its own output y, taken as a source without markup, is y
\* with every maximal whitespace run replaced by one space, and HTML2Text of
\* that result is the result itself.
C10_ReapplyCollapsesOnce ==
    (pc = "returned" /\ gen >= 1)
    => /\ err = NoErr
       /\ gen = 1 => ret.str = CollapseRuns(src.text)
       /\ gen >= 2 => ret.str = src.text

\* HTML2Text has returned its own earlier output with a line break in it
\* collapsed to a space.
C10_Witness ==
    /\ pc = "returned"
    /\ gen = 1
    /\ \E i \in 1..Len(src.text) : src.text[i] = "\n"
    /\ ret.str # src.text
    /\ ret.str = CollapseRuns(src.text)

\* The numbers of line breaks the spec gives for a tag that opens, closes,
\* or stands alone.
Headings == {"h1", "h2", "h3", "h4", "h5", "h6"}
OpeningCount(tag) ==
    CASE tag \in {"p", "ul"} -> 1 [] tag \in Headings -> 2 [] OTHER -> 0
ClosingCount(tag) ==
    CASE tag \in {"p", "li"} -> 1 [] tag \in Headings -> 2 [] OTHER -> 0
SelfCount(tag) ==
    CASE tag = "br" -> 1 [] OTHER -> 0

RECURSIVE BufferOf(_, _, _, _)
\* What the tokens toks[i], toks[i+1], ... add to the buffer, in token order,
\* when the elements in open are open and l is the line break.
BufferOf(toks, i, open, l) ==
    IF i > Len(toks) THEN <<>>
    ELSE LET t == toks[i]
             void == t.type = "StartTag" /\ t.tag \in voidElements
         IN  CASE t.type = "StartTag" /\ ~void ->
                    Repeat(l, OpeningCount(t.tag))
                    \o BufferOf(toks, i + 1, Append(open, t.tag), l)
               [] void \/ t.type \in {"SelfClosingTag", "Doctype", "Comment"} ->
                    Repeat(l, SelfCount(t.tag)) \o BufferOf(toks, i + 1, open, l)
               [] t.type = "EndTag" ->
                    Repeat(l, ClosingCount(t.tag))
                    \o BufferOf(toks, i + 1,
                                IF open = <<>> THEN open ELSE SubSeq(open, 1, Len(open) - 1), l)
               [] t.type = "Text" ->
                    (IF open # <<>> /\ Last(open) = "title"
                     THEN <<>> ELSE CollapseRuns(t.text))
                    \o BufferOf(toks, i + 1, open, l)
               [] OTHER -> <<>>

\* C11: after a successful parse the untrimmed buffer of the default text
\* builder is the concatenation, in token order, of the line breaks of each
\* start tag, self-closing (void, doctype, comment) token and end tag, as
\* many as its table gives, and of the whitespace-collapsed text of each
\* text token not enclosed by "title".
C11_BufferIsTheSumOfTheTokens ==
    (Parsed /\ err = NoErr /\ ~texter.nil)
    => texter.sb = BufferOf(tokens, 1, <<>>, texter.lbr)

\* Two adjacent paragraphs have been parsed: between their texts the buffer
\* holds exactly two line breaks.
C11_Witness ==
    /\ pc = "parsed"
    /\ err = NoErr
    /\ ~texter.nil
    /\ texter.lbr = WIN_LBR
    /\ [i \in 1..Len(tokens) |-> tokens[i].type]
          = <<"StartTag", "Text", "EndTag", "StartTag", "Text", "EndTag", "Error">>
    /\ tokens[2].text = <<"a">>
    /\ tokens[5].text = <<"a">>
    /\ texter.sb = WIN_LBR \o <<"a">> \o WIN_LBR \o WIN_LBR \o <<"a">> \o WIN_LBR

\* The start tags of non-void elements and the end tags among the tokens.
TagSubsequence(toks) ==
    SelectSeq(toks, LAMBDA t : \/ t.type = "StartTag" /\ t.tag \notin voidElements
                               \/ t.type = "EndTag")

\* The places of s where a start tag is followed at once by its end tag.
AdjacentPairs(s) ==
    {i \in 1..(Len(s) - 1) :
        s[i].type = "StartTag" /\ s[i + 1].type = "EndTag" /\ s[i].tag = s[i + 1].tag}

RECURSIVE Cancel(_)
\* s with every start tag that is followed at once by its end tag removed,
\* again and again: empty exactly when s is properly nested and balanced.
Cancel(s) ==
    IF AdjacentPairs(s) = {} THEN s
    ELSE LET i == CHOOSE j \in AdjacentPairs(s) : TRUE
         IN  Cancel(SubSeq(s, 1, i - 1) \o SubSeq(s, i + 2, Len(s)))

Balanced(toks) == Cancel(TagSubsequence(toks)) = <<>>

\* An end tag is left after cancelling: no continuation of the tokens is
\* properly nested.
Unnestable(toks) ==
    \E i \in 1..Len(Cancel(TagSubsequence(toks))) :
        Cancel(TagSubsequence(toks))[i].type = "EndTag"

\* C13: with mustTag = false simpleParse returns nil if and only if the
\* stream ended with the ordinary end of input and its non-void start tags
\* and end tags are properly nested and balanced under equality of names;
\* it stops at an end tag exactly when that end tag cannot be nested. Text,
\* self-closing, void, doctype and comment tokens have no part in it.
C13_SuccessIffBalancedAtEOF ==
    (Parsed /\ ~mustTag)
    => /\ err = NoErr <=> (EndedAtEOF /\ Balanced(tokens))
       /\ err.kind \in {"Stray", "Mismatch"} <=> Unnestable(tokens)

\* A nested, balanced stream with text and a void element inside it has been
\* parsed with success.
C13_Witness ==
    /\ pc = "parsed"
    /\ ~mustTag
    /\ err = NoErr
    /\ Len(TagSubsequence(tokens)) = 2
    /\ \E i \in 1..Len(tokens) : tokens[i].type = "Text"
    /\ \E i \in 1..Len(tokens) : tokens[i].type = "StartTag" /\ tokens[i].tag = "br"

\* HTML2Text of the source that yields toks, with line break l, called with
\* nothing before it.
IsolatedHTML2Text(toks, l) ==
    IF /\ toks # <<>>
       /\ Last(toks).type = "Error"
       /\ Last(toks).cause = EOF
       /\ Balanced(toks)
    THEN Trim(BufferOf(toks, 1, <<>>, l), TrimCutset)
    ELSE <<>>

\* C12: the tag stack and the buffer do not outlive a call: whatever calls
\* of HTML2Text and IsPlainText came before, and whatever they left on their
\* stacks, the result of HTML2Text is the result of the same call made with
\* nothing before it, a function of the source and the line break alone.
C12_ResultIgnoresEarlierCalls ==
    (pc = "returned" /\ api = "HTML2Text")
    => ret.str = IsolatedHTML2Text(tokens, texter.lbr)

\* HTML2Text has returned a text after a call that failed with a tag still
\* on its stack.
C12_Witness ==
    /\ pc = "returned"
    /\ api = "HTML2Text"
    /\ prior = "dirty"
    /\ err = NoErr
    /\ ret.str # <<>>

\* C14: simpleParse is fail-fast. The loop runs only while no error has been
\* found; the turn that finds the first error (stray end tag, mismatch,
\* unterminated tag, no tags, tokenizer error) calls no handler, not even
\* EndTag for the end tag at fault, and returns; and as long as that error
\* stands no token is read and no handler is called.
C14_FailFast ==
    [][/\ pc = "scanning" => err = NoErr
       /\ (pc = "scanning" /\ err' # NoErr)
            => (pc' = "parsed" /\ events' = events /\ texter' = texter)
       /\ pc = "parsed" => pc' \in {"parsed", "returned"}
       /\ (err # NoErr /\ pc' # "scanning")
            => (tokens' = tokens /\ events' = events /\ texter' = texter
                /\ err' = err)]_vars

\* simpleParse has returned a mismatch found at an end tag, after handlers
\* were called for the tokens before it.
C14_Witness ==
    /\ pc = "parsed"
    /\ err.kind = "Mismatch"
    /\ Last(tokens).type = "EndTag"
    /\ ~texter.nil
    /\ events # <<>>
    /\ Last(events).op = "StartTag"

\* The name of the innermost element that the tokens leave open, or "".
Innermost(toks) ==
    LET open == Cancel(TagSubsequence(toks))
    IN  IF open = <<>> THEN "" ELSE Last(open).tag

\* C15: on a text token, when a texter is present, Text is called exactly
\* once, with the top of the tag stack (the innermost open non-void element;
\* "" when the stack is empty) and the token's text as it was read; the tag
\* stack and the untagged flag are left as they were, and the loop goes on.
C15_TextTokenFrame ==
    [][Took("Text")
        => /\ tagStack' = tagStack
           /\ untagged' = untagged
           /\ err' = err
           /\ pc' = "scanning"
           /\ IF texter.nil
              THEN events' = events /\ texter' = texter
              ELSE /\ events' = Append(events,
                        [op |-> "Text",
                         a |-> IF tagStack = <<>> THEN "" ELSE tagStack[Len(tagStack)],
                         b |-> Last(tokens').text])
                   /\ Last(events').a = Innermost(tokens)]_vars

\* A text token with whitespace has been handled inside two open elements of
\* different names.
C15_Witness ==
    /\ pc = "scanning"
    /\ ~texter.nil
    /\ Len(tagStack) = 2
    /\ tagStack[1] # tagStack[2]
    /\ Last(tokens).type = "Text"
    /\ Last(tokens).text = <<" ", "\t", "b", " ">>
    /\ Last(events) = [op |-> "Text", a |-> tagStack[2], b |-> <<" ", "\t", "b", " ">>]

\* The StartTag and EndTag calls among the events, as tags.
TagCalls(evs) ==
    LET calls == SelectSeq(evs, LAMBDA e : e.op \in {"StartTag", "EndTag"})
    IN  [i \in 1..Len(calls) |-> [type |-> calls[i].op, tag |-> calls[i].a]]

\* The number of calls of the handler op among the events.
Calls(evs, op) == Cardinality({i \in 1..Len(evs) : evs[i].op = op})

\* C18: at every turn of a parse with a texter, the StartTag and EndTag calls
\* made so far are a prefix of a properly nested sequence (each EndTag call
\* names the most recent StartTag call not yet matched), and while the parse
\* goes on, and when it succeeds, the tag stack is, in order, the names of
\* the StartTag calls not yet matched by an EndTag call, so that its depth is
\* the number of StartTag calls less the number of EndTag calls.
C18_CallsNestAndStackIsTheOpenCalls ==
    ~texter.nil
    => LET open == Cancel(TagCalls(events))
       IN  /\ \A i \in 1..Len(open) : open[i].type = "StartTag"
           /\ Calls(events, "StartTag") >= Calls(events, "EndTag")
           /\ (pc = "scanning" \/ err = NoErr)
                => /\ tagStack = [i \in 1..Len(open) |-> open[i].tag]
                   /\ Len(tagStack) = Calls(events, "StartTag") - Calls(events, "EndTag")

\* After a start tag, a nested start tag, its end tag and another nested
\* start tag, two elements of different names are open.
C18_Witness ==
    /\ pc = "scanning"
    /\ ~texter.nil
    /\ Calls(events, "StartTag") = 3
    /\ Calls(events, "EndTag") = 1
    /\ Len(tagStack) = 2
    /\ tagStack[1] # tagStack[2]

\* The kinds of simpleParse's results: nil and its five errors.
Outcomes == {"nil", "Unterminated", "NoTags", "Stray", "Mismatch", "Tokenizer"}

\* C16: on a source whose tokens end with an Error token, simpleParse, once
\* started, returns with one of its outcomes. Each turn of the loop reads
\* exactly one token, after those read before; the loop is left only by a
\* return, at an Error token or at an end tag at fault; and it does not run
\* on past an Error token.
C16_ParseTerminates ==
    /\ (pc = "scanning") ~> (pc = "parsed" /\ err.kind \in Outcomes)
    /\ [][pc = "scanning"
            => /\ pc' \in {"scanning", "parsed"}
               /\ Len(tokens') = Len(tokens) + 1
               /\ SubSeq(tokens', 1, Len(tokens)) = tokens
               /\ pc' = "parsed"
                    <=> (Last(tokens').type = "Error" \/ err' # NoErr)]_vars
    /\ [](pc = "scanning" => \A i \in 1..Len(tokens) : tokens[i].type # "Error")

\* A stream of the greatest length has been read to its Error token and
\* simpleParse has returned nil.
C16_Witness ==
    /\ pc = "parsed"
    /\ Len(tokens) = MaxLen + 1
    /\ Last(tokens).type = "Error"
    /\ err = NoErr

RECURSIVE SbOf(_, _, _)
\* What the calls evs[i], evs[i+1], ... add to a buffer with line break l;
\* a call of String adds nothing.
SbOf(evs, i, l) ==
    IF i > Len(evs) THEN <<>>
    ELSE LET e == evs[i]
         IN  (CASE e.op = "StartTag" -> Repeat(l, OpeningCount(e.a))
                [] e.op = "SelfTag" -> Repeat(l, SelfCount(e.a))
                [] e.op = "EndTag" -> Repeat(l, ClosingCount(e.a))
                [] e.op = "Text" -> IF e.a = "title" THEN <<>> ELSE CollapseRuns(e.b)
                [] OTHER -> <<>>)
             \o SbOf(evs, i + 1, l)

\* r is s without the spaces, carriage returns and line feeds at its ends.
IsTrimOf(r, s) ==
    /\ r # <<>> => (r[1] \notin {" ", "\r", "\n"} /\ r[Len(r)] \notin {" ", "\r", "\n"})
    /\ \E i, j \in 0..Len(s) :
        /\ i + j <= Len(s)
        /\ r = SubSeq(s, i + 1, Len(s) - j)
        /\ \A k \in 1..i : s[k] \in {" ", "\r", "\n"}
        /\ \A k \in (Len(s) - j + 1)..Len(s) : s[k] \in {" ", "\r", "\n"}

\* C17: String leaves the buffer of the simpleTexter as it is and returns it
\* without the spaces, carriage returns and line feeds at its two ends; a
\* second String with no call between returns the same value; and the calls
\* after a String add to the whole buffer, untrimmed: the buffer is always
\* what the calls other than String have added.
C17_StringReadsOnly ==
    /\ [](texter.sb = SbOf(events, 1, texter.lbr))
    /\ [][(Len(events') = Len(events) + 1 /\ Last(events').op = "String")
            => /\ texter' = texter
               /\ IsTrimOf(ret'.str, texter.sb)
               /\ (events # <<>> /\ Last(events).op = "String") => ret'.str = ret.str]_vars

\* After a text with spaces at its ends, String has been called twice and
\* has returned the text without them; the text of the call after them
\* follows the space that the buffer still ends with.
C17_Witness ==
    /\ Len(events) = 4
    /\ events[1].op = "Text"
    /\ events[2].op = "String"
    /\ events[3].op = "String"
    /\ events[4].op = "Text"
    /\ ret.str = <<"b">>
    /\ texter.sb = <<" ", "b", " ", "a">>

\* The handler call simpleParse makes for the token toks[i] that it passes.
EventOf(toks, i) ==
    LET t == toks[i]
    IN  CASE t.type = "StartTag" /\ t.tag \notin voidElements ->
               [op |-> "StartTag", a |-> t.tag, b |-> <<>>]
          [] t.type = "EndTag" -> [op |-> "EndTag", a |-> t.tag, b |-> <<>>]
          [] t.type = "Text" ->
               [op |-> "Text", a |-> Innermost(SubSeq(toks, 1, i - 1)), b |-> t.text]
          [] OTHER -> [op |-> "SelfTag", a |-> t.tag, b |-> <<>>]

\* The result of simpleParse(src, false, texter) when toks are the tokens it
\* read, the last of them the one it returned at.
ErrOf(toks) ==
    LET last == Last(toks)
        open == Cancel(TagSubsequence(SubSeq(toks, 1, Len(toks) - 1)))
    IN  IF last.type = "Error"
        THEN IF last.cause # EOF THEN [kind |-> "Tokenizer", a |-> last.cause, b |-> ""]
             ELSE IF open # <<>> THEN [kind |-> "Unterminated", a |-> Last(open).tag, b |-> ""]
             ELSE [kind |-> "nil", a |-> "", b |-> ""]
        ELSE IF open = <<>> THEN [kind |-> "Stray", a |-> last.tag, b |-> ""]
             ELSE [kind |-> "Mismatch", a |-> Last(open).tag, b |-> last.tag]

\* The line break the caller has asked for: in the per-call variant "\r\n"
\* for HTML2Text(src, true) and "\n" otherwise; in the package-level-setter
\* variant "\n" after SetUnixLbr(true) and "\r\n" otherwise.
SelectedLbr ==
    IF variant = "percall"
    THEN (IF selected = "win" THEN <<"\r", "\n">> ELSE <<"\n">>)
    ELSE (IF selected = "unix" THEN <<"\n">> ELSE <<"\r", "\n">>)

\* C19: the two variants behave alike. In both, simpleParse's result and the
\* handler calls it makes are the same functions of the tokens; and with
\* SetUnixLbr called only between calls, HTML2Text(src) of the variant with
\* the setter is HTML2Text(src, true) of the per-call variant while the
\* setting is the default or SetUnixLbr(false), and HTML2Text(src) or
\* HTML2Text(src, false) of the per-call variant after SetUnixLbr(true).
C19_VariantsAgree ==
    (pc = "returned" /\ api = "HTML2Text")
    => /\ err = ErrOf(tokens)
       /\ events = [i \in 1..(Len(tokens) - 1) |-> EventOf(tokens, i)]
       /\ ret.str = IsolatedHTML2Text(tokens, SelectedLbr)

\* The variant with the setter has returned a text with a Unix line break in
\* it after SetUnixLbr(true).
C19_Witness ==
    /\ variant = "global"
    /\ pc = "returned"
    /\ selected = "unix"
    /\ err = NoErr
    /\ ret.str = <<"a", "\n", "\n", "a">>

====
